---- MODULE Spec2Model ----
(***************************************************************************)
(* Model of the network-namespace watcher of the kernel daemon             *)
(* (daemons/kernel/src/sys/netns.rs and daemons/kernel/src/api/netns.rs):  *)
(* NetnsWatcher::new, the reconciliation loop NetnsWatcher::run with its   *)
(* insert/remove calls, NetnsWatcher::list/wait, the long-poll of          *)
(* NetnsWatcherStream, the scan Netns::list, and the namespace switches    *)
(* Netns::enter and NetnsHandle::close.                                    *)
(***************************************************************************)
EXTENDS Integers, Sequences, FiniteSets, TLC

(***************************************************************************)
(* Bounds of the model.                                                    *)
(***************************************************************************)
\* usize is modelled UsizeBits wide, so that wrapping_add wraps in the model
UsizeBits == 1
\* events the notify callback sends over one run
MaxEvents == 2
\* events in flight in the unbounded mpsc channel
MaxChan == 1
\* calls of Netns::enter and NetnsHandle::close over one run
MaxCalls == 3

(***************************************************************************)
(* Program constants.                                                      *)
(***************************************************************************)
NETNS_PATH == "/run/netns"
DEAULT_NETNS_PATH == "/proc/1/ns/net"
\* libc::IN_ISDIR, the inotify event flag 0x40000000
IN_ISDIR == 1073741824
\* file-type bits of st_mode as stat(2) reports them: S_IFDIR 0o040000,
\* S_IFREG 0o100000
S_IFDIR == 16384
S_IFREG == 32768
\* inode of /proc/1/ns/net, and the inode of any other entry
DEFAULT_INO == 1
OTHER_INO == 2

\* names of the entries that may appear in /run/netns, and the streams
Names == {"a", "b"}
Streams == {"s1", "s2"}
\* the threads of the runtime #[tokio::main] builds: the thread of main(),
\* which is the thread-group leader, and a worker
Threads == {"main", "worker"}
Leader == "main"

UsizeModulus == 2 ^ UsizeBits
wrapping_add(x, y) == (x + y) % UsizeModulus

\* bitwise and of two naturals
RECURSIVE BitAnd(_, _)
BitAnd(x, y) ==
    IF x = 0 \/ y = 0 THEN 0
    ELSE (IF x % 2 = 1 /\ y % 2 = 1 THEN 1 ELSE 0) + 2 * BitAnd(x \div 2, y \div 2)

Range(s) == {s[i] : i \in 1..Len(s)}

(***************************************************************************)
(* Netns, paths and the file system as stat sees it.                       *)
(***************************************************************************)
Default == <<"Default">>
Named(name) == <<"Named", name>>

\* Path::new(dir).join(name): a path is its directory and its file name
Join(dir, name) == <<dir, name>>
Paths == {Join(NETNS_PATH, n) : n \in Names}
\* path.to_string_lossy().to_string(): the names of the model are UTF-8, and
\* the string of such a path is its components joined by "/"
PathString(path) == path[1] \o "/" \o path[2]

\* what a directory entry is: missing, a namespace file, a directory, or the
\* default namespace bind-mounted under a name
EntryKinds == {"absent", "file", "dir", "default"}

StatErr == [ok |-> FALSE, st_mode |-> 0, st_ino |-> 0]
StatOf(kind) ==
    CASE kind = "file" -> [ok |-> TRUE, st_mode |-> S_IFREG + 292, st_ino |-> OTHER_INO]
      [] kind = "dir" -> [ok |-> TRUE, st_mode |-> S_IFDIR + 493, st_ino |-> OTHER_INO]
      [] kind = "default" -> [ok |-> TRUE, st_mode |-> S_IFREG + 292, st_ino |-> DEFAULT_INO]
      [] OTHER -> StatErr

\* stat(path): entries live in /run/netns only
Stat(f, path) ==
    IF path[1] = NETNS_PATH /\ path[2] \in DOMAIN f THEN StatOf(f[path[2]]) ELSE StatErr

\* the test of lines 81-82 and 226-227, as the code writes it
IsFiltered(st, default_ino) ==
    \/ BitAnd(st.st_mode, IN_ISDIR) = IN_ISDIR
    \/ st.st_ino = default_ino

(***************************************************************************)
(* Netns::list(): the scan of /run/netns.  entries is the sequence of file *)
(* names the directory iteration gives, "." and ".." included.             *)
(***************************************************************************)
RECURSIVE ScanEntries(_, _)
ScanEntries(entries, f) ==
    IF entries = <<>> THEN <<>>
    ELSE LET file_name == Head(entries)
             file_path == Join(NETNS_PATH, file_name)
             netns_stat == Stat(f, file_path)
             rest == ScanEntries(Tail(entries), f)
         IN  IF file_name \in {".", ".."} THEN rest
             ELSE IF ~netns_stat.ok THEN rest
             ELSE IF IsFiltered(netns_stat, DEFAULT_INO) THEN rest
             ELSE <<Named(PathString(file_path))>> \o rest

\* a scan that returns the entries of the directory alone
Netns_listNoDefault(default_ok, dir_ok, entries, f) ==
    IF ~default_ok THEN <<>>
    ELSE IF ~dir_ok THEN <<>>
    ELSE ScanEntries(entries, f)

Netns_list(default_ok, dir_ok, entries, f) ==
    IF ~default_ok THEN <<Default>>
    ELSE IF ~dir_ok THEN <<Default>>
    ELSE <<Default>> \o ScanEntries(entries, f)

\* the orders in which the directory iteration may give a set of names
RECURSIVE Orders(_)
Orders(S) ==
    IF S = {} THEN {<<>>}
    ELSE UNION {{<<x>> \o o : o \in Orders(S \ {x})} : x \in S}

DirEntries(f) == Orders({".", ".."} \cup {n \in DOMAIN f : f[n] # "absent"})

(***************************************************************************)
(* Events of the notify crate, as the match of NetnsWatcher::run sees them.*)
(***************************************************************************)
InsertKinds == {"Create(Any)", "Create(File)", "Modify(Name(To))"}
RemoveKinds == {"Remove(Any)", "Remove(File)", "Modify(Name(From))"}
BothKind == "Modify(Name(Both))"
OtherKinds == {"Create(Folder)", "Remove(Folder)", "Modify(Data)"}
EventKinds == InsertKinds \cup RemoveKinds \cup {BothKind} \cup OtherKinds

Event(kind, paths) == [ok |-> TRUE, kind |-> kind, paths |-> paths]
\* an Err(notify::Error) sent by the callback
ErrEvent == [ok |-> FALSE, kind |-> "Error", paths |-> <<>>]
NoEvent == [ok |-> FALSE, kind |-> "None", paths |-> <<>>]

\* Option<usize>
None == <<>>
Some(x) == <<x>>

VARIABLES
    proc_ok,    \* whether stat("/proc/1/ns/net") succeeds
    dir,        \* whether /run/netns exists and is a directory
    fs,         \* fs[n]: what the entry /run/netns/n is
    ctor,       \* what NetnsWatcher::new() returned: "none" before the call
    list,       \* NetnsWatcher.list, the pair behind the RwLock
    chan,       \* the mpsc channel from the notify callback to run()
    watching,   \* whether the inotify watch on /run/netns is registered
    w,          \* the task of NetnsWatcher::run: position and locals
    spc,        \* spc[s]: position of stream s in NetnsWatcherStream::poll
    midx,       \* midx[s]: modification_index of the future of stream s
    item,       \* item[s]: the last item poll_next gave for stream s
    nyield,     \* nyield[s]: items stream s has given (history)
    yver,       \* yver[s]: value of ver when s gave its last item (history)
    ver,        \* wrapping_add calls on list.1 so far (history)
    sent,       \* events sent so far (history)
    ref,        \* the reference set of the replayed inserts/removes (history)
    pre,        \* the pair in list when the current event was received (history)
    seen,       \* pairs list() returned since the current event was received (history)
    tns,        \* tns[t]: the network namespace thread t of the process is in
    handles,    \* the NetnsHandle values enter() returned, in order
    nfresh,     \* the namespaces unshare(CLONE_NEWNET) has created so far
    last,       \* the last call of enter()/close() and what it returned (history)
    scan,       \* a call of Netns::list(): the directory iteration and the result
    skipped     \* whether the loop made no call for the last event it matched (history)

vars == <<proc_ok, dir, fs, ctor, list, chan, watching, w, spc, midx, item,
          nyield, yver, ver, sent, ref, pre, seen, tns, handles, nfresh, last, scan, skipped>>
nsVars == <<tns, handles, nfresh, last>>
otherVars == <<nsVars, scan, skipped>>
envVars == <<proc_ok, dir, fs>>
streamVars == <<spc, midx, item, nyield, yver>>
histVars == <<ver, ref, pre, seen>>

\* network namespaces: the one of pid 1, the one bound to /run/netns/n, and
\* the k-th one unshare(CLONE_NEWNET) made
RootNs == <<"root">>
NamedNs(n) == <<"named", n>>
FreshNs(k) == <<"fresh", k>>
\* no call of Netns::list() yet
NoScan == [done |-> FALSE, entries |-> <<>>, out |-> <<>>]
\* no call of enter()/close() yet
NoCall == [op |-> "none", n |-> 0, clean |-> TRUE]

Idle(pc) == [pc |-> pc, ev |-> NoEvent, plan |-> <<>>, paths |-> <<>>, changed |-> FALSE]

\* the write guard of self.list is held from the first line of insert/remove
\* to its return
WriteLocked == w.pc \in {"insert", "remove"}

Init ==
    /\ proc_ok \in BOOLEAN
    /\ dir \in BOOLEAN
    /\ fs \in [Names -> EntryKinds]
    /\ (~dir => \A n \in Names : fs[n] = "absent")
    /\ ctor = "none"
    /\ list = <<{}, 0>>
    /\ chan = <<>>
    /\ watching = FALSE
    /\ w = Idle("off")
    /\ spc = [s \in Streams |-> "none"]
    /\ midx = [s \in Streams |-> None]
    /\ item = [s \in Streams |-> {}]
    /\ nyield = [s \in Streams |-> 0]
    /\ yver = [s \in Streams |-> 0]
    /\ ver = 0
    /\ sent = 0
    /\ ref = {}
    /\ pre = <<{}, 0>>
    /\ seen = {}
    /\ tns = [t \in Threads |-> RootNs]
    /\ handles = <<>>
    /\ nfresh = 0
    /\ last = NoCall
    /\ scan = NoScan
    /\ skipped = FALSE

(***************************************************************************)
(* NetnsWatcher::new(), lines 142-159, called by NetnsService::new().      *)
(***************************************************************************)
New ==
    /\ ctor = "none"
    /\ IF ~proc_ok
       THEN /\ ctor' = "err"
            /\ UNCHANGED <<list, w, ref, pre>>
       ELSE \E entries \in DirEntries(fs) :
            LET set == Range(Netns_list(proc_ok, dir, entries, fs))
            IN  /\ list' = <<set, 0>>
                /\ w' = Idle("init")
                /\ ctor' = "ok"
                /\ ref' = set
                /\ pre' = <<set, 0>>
    /\ UNCHANGED <<otherVars, envVars, chan, watching, streamVars, ver, sent, seen>>

(***************************************************************************)
(* NetnsWatcher::run(), lines 161-175: the subscription.                   *)
(***************************************************************************)
\* INotifyWatcher::new(..)?
RunInit ==
    /\ w.pc = "init"
    /\ \E ok \in BOOLEAN : w' = Idle(IF ok THEN "mkdir" ELSE "failed")
    /\ UNCHANGED <<otherVars, envVars, ctor, list, chan, watching, streamVars, histVars, sent>>

\* if !netns_path.is_dir() { create_dir(netns_path)?; }
RunMkdir ==
    /\ w.pc = "mkdir"
    /\ IF dir
       THEN /\ w' = Idle("watch")
            /\ UNCHANGED dir
       ELSE \E ok \in BOOLEAN :
            /\ w' = Idle(IF ok THEN "watch" ELSE "failed")
            /\ dir' = (dir \/ ok)
    /\ UNCHANGED <<otherVars, proc_ok, fs, ctor, list, chan, watching, streamVars, histVars, sent>>

\* file_watcher.watch(netns_path, RecursiveMode::NonRecursive)?
RunWatch ==
    /\ w.pc = "watch"
    /\ \E ok \in BOOLEAN :
        /\ w' = Idle(IF ok THEN "recv" ELSE "failed")
        /\ watching' = ok
    /\ UNCHANGED <<otherVars, envVars, ctor, list, chan, streamVars, histVars, sent>>

(***************************************************************************)
(* The notify callback (lines 164-166) sends an event to the channel.      *)
(***************************************************************************)
Send(e) ==
    /\ watching
    /\ sent < MaxEvents
    /\ Len(chan) < MaxChan
    /\ chan' = Append(chan, e)
    /\ sent' = sent + 1
    /\ UNCHANGED <<otherVars, envVars, ctor, list, watching, w, streamVars, histVars>>

(***************************************************************************)
(* The loop of NetnsWatcher::run(), lines 177-204.                         *)
(***************************************************************************)
\* the calls the match of lines 182-203 makes for an event, in order; every
\* arm that makes a call ends with notify_waiters()
Call(op, paths) == [op |-> op, paths |-> paths]

\* a match that takes the creation of a folder for the creation of a file
DispatchFolders(event) ==
    IF event.kind \in InsertKinds \cup {"Create(Folder)"}
    THEN <<Call("insert", event.paths)>>
    ELSE IF event.kind = BothKind
    THEN IF Len(event.paths) = 2
         THEN <<Call("remove", <<event.paths[2]>>), Call("insert", <<event.paths[1]>>)>>
         ELSE <<>>
    ELSE IF event.kind \in RemoveKinds THEN <<Call("remove", event.paths)>>
    ELSE <<>>

Dispatch(event) ==
    IF event.kind \in InsertKinds THEN <<Call("insert", event.paths)>>
    ELSE IF event.kind = BothKind
    THEN IF Len(event.paths) = 2
         THEN <<Call("remove", <<event.paths[2]>>), Call("insert", <<event.paths[1]>>)>>
         ELSE <<>>
    ELSE IF event.kind \in RemoveKinds THEN <<Call("remove", event.paths)>>
    ELSE <<>>

\* rx.recv().await gives an event (line 177)
Recv ==
    /\ w.pc = "recv"
    /\ chan # <<>>
    /\ chan' = Tail(chan)
    /\ w' = [Idle("match") EXCEPT !.ev = Head(chan)]
    /\ pre' = list
    /\ seen' = {}
    /\ UNCHANGED <<otherVars, envVars, ctor, list, watching, streamVars, ver, sent, ref>>

\* lines 178-203: an Err is skipped by `continue`, an event of an arm that
\* makes calls goes on to them, any other falls through to the next recv
Match ==
    /\ w.pc = "match"
    /\ w' = IF w.ev.ok /\ Dispatch(w.ev) # <<>>
            THEN [w EXCEPT !.pc = "call", !.plan = Dispatch(w.ev)]
            ELSE Idle("recv")
    /\ skipped' = ~(w.ev.ok /\ Dispatch(w.ev) # <<>>)
    /\ UNCHANGED <<nsVars, scan, envVars, ctor, list, chan, watching, streamVars, histVars, sent>>

\* self.list.write().await of the next call (lines 218, 247): the write
\* guard is given once no reader holds a permit of the lock
Acquire ==
    /\ w.pc = "call"
    /\ \A s \in Streams : spc[s] # "granted"
    /\ w' = [w EXCEPT !.pc = Head(w.plan).op,
                      !.paths = Head(w.plan).paths,
                      !.plan = Tail(w.plan),
                      !.changed = FALSE]
    /\ UNCHANGED <<otherVars, envVars, ctor, list, chan, watching, streamVars, histVars, sent>>

\* one turn of the loop of insert, lines 221-239: the set after it
InsertOne(set, netns_stat, path) ==
    IF ~netns_stat.ok THEN set
    ELSE IF IsFiltered(netns_stat, DEFAULT_INO) THEN set
    ELSE set \cup {Named(PathString(path))}

\* one turn of the loop of remove, lines 250-258: the set after it
RemoveOne(set, path) == set \ {Named(PathString(path))}

\* the reference set: an insert is skipped when the stat fails, the entry is
\* a directory, or it is the default namespace
RefInsert(set, path, kind) ==
    IF kind = "file" THEN set \cup {Named(PathString(path))} ELSE set
RefRemove(set, path) == {x \in set : x # Named(PathString(path))}

InsertPath ==
    /\ w.pc = "insert"
    /\ w.paths # <<>>
    /\ LET path == Head(w.paths)
           set == InsertOne(list[1], Stat(fs, path), path)
       IN  /\ list' = <<set, list[2]>>
           /\ w' = [w EXCEPT !.paths = Tail(w.paths),
                             !.changed = w.changed \/ set # list[1]]
           /\ ref' = RefInsert(ref, path, IF path[2] \in Names THEN fs[path[2]] ELSE "absent")
    /\ UNCHANGED <<otherVars, envVars, ctor, chan, watching, streamVars, ver, sent, pre, seen>>

RemovePath ==
    /\ w.pc = "remove"
    /\ w.paths # <<>>
    /\ LET path == Head(w.paths)
           set == RemoveOne(list[1], path)
       IN  /\ list' = <<set, list[2]>>
           /\ w' = [w EXCEPT !.paths = Tail(w.paths),
                             !.changed = w.changed \/ set # list[1]]
           /\ ref' = RefRemove(ref, path)
    /\ UNCHANGED <<otherVars, envVars, ctor, chan, watching, streamVars, ver, sent, pre, seen>>

\* lines 241-244 and 260-263: the bump, and the write guard is dropped
Bump(index, changed) == IF changed THEN wrapping_add(index, 1) ELSE index

\* the release of the write guard hands the lock to the readers queued on
\* it: each holds its read permit from then until its future is polled
Granted(pc) == IF pc = "lockwait" THEN "granted" ELSE pc

EndCall ==
    /\ WriteLocked
    /\ w.paths = <<>>
    /\ list' = <<list[1], Bump(list[2], w.changed)>>
    /\ ver' = IF w.changed THEN ver + 1 ELSE ver
    /\ w' = [w EXCEPT !.pc = IF w.plan = <<>> THEN "notify" ELSE "call",
                      !.changed = FALSE]
    /\ spc' = [s \in Streams |-> Granted(spc[s])]
    /\ UNCHANGED <<otherVars, envVars, ctor, chan, watching, midx, item, nyield, yver,
                   sent, ref, pre, seen>>

\* self.notif.notify_waiters(): the streams waiting now are woken
Woken(pc) == IF pc = "waiting" THEN "list" ELSE pc

Notify ==
    /\ w.pc = "notify"
    /\ spc' = [s \in Streams |-> Woken(spc[s])]
    /\ w' = Idle("recv")
    /\ UNCHANGED <<otherVars, envVars, ctor, list, chan, watching, midx, item, nyield, yver,
                   histVars, sent>>

(***************************************************************************)
(* NetnsWatcherStream, lines 266-309, one per call of watch_netns.         *)
(***************************************************************************)
\* a first future that takes the counter to start at 0 for seen
FirstIndexZero == Some(0)

\* NetnsWatcherStream::new: the first future is poll(None, watcher)
FirstIndex == None

\* a test that lets every read through
ChangedAlways(modification_index, new_modification_index) == TRUE

\* the test of line 284
Changed(modification_index, new_modification_index) ==
    modification_index # Some(new_modification_index)

\* a poll_next that forgets the index it gave
NextIndexNone(modification_index) == None

\* poll_next, lines 303-305: the next future is poll(Some(index), watcher)
NextIndex(modification_index) == Some(modification_index)

Subscribe(s) ==
    /\ ctor = "ok"
    /\ spc[s] \in {"none", "dropped"}
    /\ spc' = [spc EXCEPT ![s] = "list"]
    /\ midx' = [midx EXCEPT ![s] = FirstIndex]
    /\ UNCHANGED <<otherVars, envVars, ctor, list, chan, watching, w, item, nyield, yver,
                   histVars, sent>>

\* watcher.list().await polled while the loop holds the write guard: the
\* read is queued on the lock and the future is pending
QueueRead(s) ==
    /\ spc[s] = "list"
    /\ WriteLocked
    /\ spc' = [spc EXCEPT ![s] = "lockwait"]
    /\ UNCHANGED <<otherVars, envVars, ctor, list, chan, watching, w, midx, item, nyield, yver,
                   histVars, sent>>

\* a list() that takes the pair out of the lock
ListAfterTake(l) == <<{}, 0>>

\* list(), lines 209-211: read().await.clone() leaves the pair as it is
ListAfterRead(l) == l

\* watcher.list().await gets the read guard, at once or having queued for
\* it, and clones the pair; then either the future returns and poll_next
\* gives the set and arms poll(Some(index)), or the loop goes on to wait()
PollList(s) ==
    /\ \/ spc[s] = "list" /\ ~WriteLocked
       \/ spc[s] = "granted"
    /\ list' = ListAfterRead(list)
    /\ seen' = IF w.pc \in {"call", "notify"} THEN seen \cup {list} ELSE seen
    /\ IF Changed(midx[s], list[2])
       THEN /\ item' = [item EXCEPT ![s] = list[1]]
            /\ midx' = [midx EXCEPT ![s] = NextIndex(list[2])]
            /\ nyield' = [nyield EXCEPT ![s] = @ + 1]
            /\ yver' = [yver EXCEPT ![s] = ver]
            /\ spc' = [spc EXCEPT ![s] = "list"]
       ELSE /\ spc' = [spc EXCEPT ![s] = "arm"]
            /\ UNCHANGED <<item, midx, nyield, yver>>
    /\ UNCHANGED <<otherVars, envVars, ctor, chan, watching, w, ver, sent, ref, pre>>

\* watcher.wait(): self.notif.notified() is created and awaited
Wait(s) ==
    /\ spc[s] = "arm"
    /\ spc' = [spc EXCEPT ![s] = "waiting"]
    /\ UNCHANGED <<otherVars, envVars, ctor, list, chan, watching, w, midx, item, nyield, yver,
                   histVars, sent>>

\* the stream is dropped; the watcher keeps nothing of it, and a read permit
\* the stream held goes back to the lock
Drop(s) ==
    /\ spc[s] \notin {"none", "dropped"}
    /\ spc' = [spc EXCEPT ![s] = "dropped"]
    /\ midx' = [midx EXCEPT ![s] = None]
    /\ item' = [item EXCEPT ![s] = {}]
    /\ nyield' = [nyield EXCEPT ![s] = 0]
    /\ yver' = [yver EXCEPT ![s] = 0]
    /\ UNCHANGED <<otherVars, envVars, ctor, list, chan, watching, w, histVars, sent>>

(***************************************************************************)
(* The file system under /run/netns, changed by other processes.           *)
(***************************************************************************)
\* any change of one entry, whatever events it raises
FsSet(n, kind) ==
    /\ dir
    /\ fs[n] # kind
    /\ fs' = [fs EXCEPT ![n] = kind]
    /\ UNCHANGED <<otherVars, proc_ok, dir, ctor, list, chan, watching, w, streamVars, histVars, sent>>

\* the callback of lines 164-166 runs for a change once the watch of line
\* 175 is registered, and not before
Raise(event) ==
    IF watching
    THEN /\ sent < MaxEvents
         /\ Len(chan) < MaxChan
         /\ chan' = Append(chan, event)
         /\ sent' = sent + 1
    ELSE UNCHANGED <<chan, sent>>

\* a namespace file is created, as `ip netns add n` does
FsCreate(n) ==
    /\ dir
    /\ fs[n] = "absent"
    /\ fs' = [fs EXCEPT ![n] = "file"]
    /\ Raise(Event("Create(File)", <<Join(NETNS_PATH, n)>>))
    /\ UNCHANGED <<otherVars, proc_ok, dir, ctor, list, watching, w, streamVars, histVars>>

\* a namespace file is removed, as `ip netns delete n` does
FsRemove(n) ==
    /\ dir
    /\ fs[n] = "file"
    /\ fs' = [fs EXCEPT ![n] = "absent"]
    /\ Raise(Event("Remove(File)", <<Join(NETNS_PATH, n)>>))
    /\ UNCHANGED <<otherVars, proc_ok, dir, ctor, list, watching, w, streamVars, histVars>>

(***************************************************************************)
(* Netns::enter(), lines 104-112, and NetnsHandle::close(), lines 126-133.  *)
(* setns(2) and unshare(2) change the namespace of the calling thread;      *)
(* /proc/self is the directory of the thread-group leader, so               *)
(* /proc/self/ns/net names the namespace the leader is in.                  *)
(***************************************************************************)
\* Result values
Ok(v) == [ok |-> TRUE, val |-> v, err |-> "none"]
Err(e) == [ok |-> FALSE, val |-> <<>>, err |-> e]
\* what File::open gives when it fails for another reason than a missing path
OpenErrors == {"NotFound", "Other"}

\* Netns::path(), lines 93-98, as the entry it names: the default namespace
\* is /proc/1/ns/net, a named one is the entry NETNS_PATH/name
Netns_path(netns) ==
    IF netns = Default THEN DEAULT_NETNS_PATH ELSE Join(NETNS_PATH, netns[2])

\* whether the path exists, as Netns::exists() of lines 100-102 asks
PathExists(path, default_ok, f) ==
    IF path = DEAULT_NETNS_PATH THEN default_ok ELSE f[path[2]] # "absent"

\* the namespace an open file of that path refers to for setns: none when
\* the entry is not a namespace file
NotANamespace == <<"none">>
NsOfPath(path, f) ==
    IF path = DEAULT_NETNS_PATH THEN RootNs
    ELSE IF f[path[2]] = "file" THEN NamedNs(path[2])
    ELSE IF f[path[2]] = "default" THEN RootNs
    ELSE NotANamespace

\* File::open(path): NotFound when the path is missing, else the file or
\* the error the system gave (fails = "ok" for none)
File_open(exists, fails, ns) ==
    IF ~exists THEN Err("NotFound")
    ELSE IF fails # "ok" THEN Err(fails)
    ELSE Ok(ns)

\* what a call leaves: its result and the namespace of the calling thread
Outcome(result, ns, unshared) == [result |-> result, ns |-> ns, unshared |-> unshared]

\* an enter that leaves the old namespace before it has opened the target
enterUnshareFirst(initial_netns, target_netns, unshare_ok, setns_ok, cur, fresh) ==
    IF ~initial_netns.ok THEN Outcome(initial_netns, cur, FALSE)
    ELSE IF ~unshare_ok THEN Outcome(Err("unshare"), cur, FALSE)
    ELSE IF ~target_netns.ok THEN Outcome(target_netns, fresh, TRUE)
    ELSE IF ~setns_ok \/ target_netns.val = NotANamespace
         THEN Outcome(Err("setns"), fresh, TRUE)
    ELSE Outcome(Ok(initial_netns.val), target_netns.val, TRUE)

\* Netns::enter, lines 105-111: each `?` returns the error of its step, and
\* the steps before it have taken effect
enter(initial_netns, target_netns, unshare_ok, setns_ok, cur, fresh) ==
    IF ~initial_netns.ok THEN Outcome(initial_netns, cur, FALSE)
    ELSE IF ~target_netns.ok THEN Outcome(target_netns, cur, FALSE)
    ELSE IF ~unshare_ok THEN Outcome(Err("unshare"), cur, FALSE)
    ELSE IF ~setns_ok \/ target_netns.val = NotANamespace
         THEN Outcome(Err("setns"), fresh, TRUE)
    ELSE Outcome(Ok(initial_netns.val), target_netns.val, TRUE)

\* NetnsHandle::close, lines 127-132
close(handle, unshare_ok, setns_ok, cur, fresh) ==
    IF ~unshare_ok THEN Outcome(Err("unshare"), cur, FALSE)
    ELSE IF ~setns_ok THEN Outcome(Err("setns"), fresh, TRUE)
    ELSE Outcome(Ok(handle), handle, TRUE)

\* the handles not yet closed, as indices of handles
Live == {i \in 1..Len(handles) : handles[i].live}

\* thread t calls netns.enter()
Enter(t, netns) ==
    /\ last.n < MaxCalls
    /\ \E self_fails \in {"ok"} \cup OpenErrors, target_fails \in {"ok", "Other"},
          unshare_ok \in BOOLEAN, setns_ok \in BOOLEAN :
        LET path == Netns_path(netns)
            exists == PathExists(path, proc_ok, fs)
            initial_netns == File_open(self_fails # "NotFound", self_fails, tns[Leader])
            target_netns == File_open(exists, target_fails, NsOfPath(path, fs))
            out == enter(initial_netns, target_netns, unshare_ok, setns_ok,
                         tns[t], FreshNs(nfresh + 1))
        IN  \* a choice behind a step that was not reached is no choice
            /\ (~initial_netns.ok => target_fails = "ok")
            /\ (~initial_netns.ok \/ ~target_netns.ok => unshare_ok)
            /\ (~out.unshared \/ target_netns.val = NotANamespace => setns_ok)
            /\ tns' = [tns EXCEPT ![t] = out.ns]
            /\ nfresh' = IF out.unshared THEN nfresh + 1 ELSE nfresh
            /\ handles' = IF out.result.ok
                          THEN Append(handles, [file |-> out.result.val, thread |-> t,
                                                before |-> tns[t], live |-> TRUE])
                          ELSE handles
            /\ last' = [op |-> "enter", n |-> last.n + 1,
                        thread |-> t, result |-> out.result, before |-> tns,
                        exists |-> exists, self_ok |-> initial_netns.ok,
                        top |-> FALSE, at |-> tns[t], unshared |-> out.unshared,
                        clean |-> last.clean /\ out.result.ok]
    /\ UNCHANGED <<envVars, ctor, list, chan, watching, w, streamVars, histVars, sent, scan, skipped>>

\* the thread that entered calls close() on the handle i; close takes self
Close(i) ==
    /\ last.n < MaxCalls
    /\ i \in Live
    /\ \E unshare_ok \in BOOLEAN, setns_ok \in BOOLEAN :
        LET t == handles[i].thread
            out == close(handles[i].file, unshare_ok, setns_ok, tns[t], FreshNs(nfresh + 1))
        IN  /\ (~unshare_ok => setns_ok)
            /\ tns' = [tns EXCEPT ![t] = out.ns]
            /\ nfresh' = IF out.unshared THEN nfresh + 1 ELSE nfresh
            /\ handles' = [handles EXCEPT ![i].live = FALSE]
            /\ last' = [op |-> "close", n |-> last.n + 1, thread |-> t,
                        result |-> out.result, before |-> tns, exists |-> TRUE,
                        self_ok |-> TRUE, top |-> \A j \in Live : j <= i,
                        at |-> handles[i].before, unshared |-> out.unshared,
                        clean |-> last.clean /\ out.result.ok]
    /\ UNCHANGED <<envVars, ctor, list, chan, watching, w, streamVars, histVars, sent, scan, skipped>>

(***************************************************************************)
(* A call of Netns::list(), lines 53-91, over any directory.               *)
(***************************************************************************)
\* what the directory iteration may give: the entries present and any that
\* are gone by the time they are stat'd, in any order
ListEntries(f) ==
    UNION {Orders({".", ".."} \cup S) :
           S \in {T \in SUBSET DOMAIN f : \A n \in DOMAIN f : f[n] # "absent" => n \in T}}

List ==
    /\ ~scan.done
    /\ \E entries \in ListEntries(fs) :
        scan' = [done |-> TRUE, entries |-> entries,
                 out |-> Netns_list(proc_ok, dir, entries, fs)]
    /\ UNCHANGED <<nsVars, skipped, envVars, ctor, list, chan, watching, w, streamVars,
                   histVars, sent>>

(***************************************************************************)
(* Specifications.                                                         *)
(***************************************************************************)
\* the paths of one event: up to two entries of /run/netns, no entry twice
PathSeqs ==
    {ps \in UNION {[1..k -> Paths] : k \in 0..2} : Cardinality(Range(ps)) = Len(ps)}
Events == {Event(k, ps) : k \in EventKinds, ps \in PathSeqs} \cup {ErrEvent}

Boot == New \/ RunInit \/ RunMkdir \/ RunWatch
Loop == Recv \/ Match \/ Acquire \/ InsertPath \/ RemovePath \/ EndCall \/ Notify
StreamStep ==
    \E s \in Streams : Subscribe(s) \/ QueueRead(s) \/ PollList(s) \/ Wait(s) \/ Drop(s)

\* the reconciliation loop fed any events, over any file system
NextRecon ==
    \/ Boot
    \/ Loop
    \/ \E e \in Events : Send(e)
    \/ \E n \in Names, k \in EntryKinds : FsSet(n, k)

\* the directory starts with files only; FsSet makes the other entries
InitRecon ==
    /\ Init
    /\ \A n \in Names : fs[n] \in {"absent", "file"}

SpecRecon == InitRecon /\ [][NextRecon]_vars

\* the same, over a directory that never holds a directory
NextReconFiles ==
    \/ Boot
    \/ Loop
    \/ \E e \in Events : Send(e)
    \/ \E n \in Names, k \in EntryKinds \ {"dir"} : FsSet(n, k)

SpecReconFiles == InitRecon /\ [][NextReconFiles]_vars

\* the streams of any number of subscribers against the loop, fed the events
\* that create, remove and rename the entries of a directory of namespace
\* files
PathA == Join(NETNS_PATH, "a")
PathB == Join(NETNS_PATH, "b")
StreamEvents ==
    {Event("Create(File)", <<PathA>>), Event("Remove(File)", <<PathA>>),
     Event(BothKind, <<PathA, PathB>>), Event(BothKind, <<PathB, PathA>>)}

InitFiles ==
    /\ Init
    /\ proc_ok
    /\ dir
    /\ \A n \in Names : fs[n] \in {"absent", "file"}

Next ==
    \/ Boot
    \/ Loop
    \/ \E e \in StreamEvents : Send(e)
    \/ StreamStep

Spec == InitFiles /\ [][Next]_vars

\* the loop fed by a directory of namespace files that other processes
\* create and remove, each change raising its event once the watch is set
NextFs ==
    \/ Boot
    \/ Loop
    \/ \E n \in Names : FsCreate(n) \/ FsRemove(n)

InitFs ==
    /\ Init
    /\ \A n \in Names : fs[n] \in {"absent", "file"}

SpecFs == InitFs /\ [][NextFs]_vars

\* threads of the process entering namespaces and closing the handles, over
\* a /run/netns of namespace files, directories and missing entries
Targets == {Default} \cup {Named(n) : n \in Names}
NextNs ==
    \/ \E t \in Threads, netns \in Targets : Enter(t, netns)
    \/ \E i \in 1..MaxCalls : Close(i)

InitNs ==
    /\ Init
    /\ dir
    /\ \A n \in Names : fs[n] \in {"absent", "file", "dir"}

SpecNs == InitNs /\ [][NextNs]_vars

\* one call of Netns::list() over any /proc and /run/netns
NextList == List

SpecList == Init /\ [][NextList]_vars

\* the streams against the loop fed events it handles and events it has no
\* arm for: another kind, a rename of both names with one path or none, an
\* error of the watcher
IgnoredEvents ==
    {Event("Create(Folder)", <<PathA>>), Event(BothKind, <<PathA>>),
     Event(BothKind, <<>>), ErrEvent}
HandledEvents == {Event("Create(File)", <<PathA>>), Event("Remove(File)", <<PathA>>)}

NextIgnored ==
    \/ Boot
    \/ Loop
    \/ \E e \in HandledEvents \cup IgnoredEvents : Send(e)
    \/ StreamStep

SpecIgnored == InitFiles /\ [][NextIgnored]_vars

\* the streams against the loop over a /run/netns, there or not at the
\* start, holding namespace files and bind mounts of the default namespace;
\* other processes make the entry the events name a file, a bind mount of
\* the default namespace, or remove it, with or without an event
NextDefault ==
    \/ Boot
    \/ Loop
    \/ \E e \in HandledEvents : Send(e)
    \/ StreamStep
    \/ \E k \in {"absent", "file", "default"} : FsSet("a", k)

InitDefault ==
    /\ Init
    /\ proc_ok
    /\ \A n \in Names : fs[n] \in {"absent", "file", "default"}

SpecDefault == InitDefault /\ [][NextDefault]_vars

(***************************************************************************)
(* The reconciliation loop: claims C1 to C3.                               *)
(***************************************************************************)
\* the loop has processed the event in w.ev whole and not yet notified
EventDone == w.pc = "notify"

\* C1: after any sequence of insert and remove events the snapshot set is the
\* initial set with the same inserts and removes applied to a reference set,
\* an insert being skipped exactly when the stat fails, the entry is a
\* directory or it has the inode of the default namespace.
C1_SnapshotIsReference == ctor = "ok" => list[1] = ref

\* C2: an event bumps the counter by exactly one when it changed the set, and
\* leaves it alone when it did not.
C2_OneBumpPerEvent ==
    EventDone =>
        list[2] = IF list[1] # pre[1] THEN wrapping_add(pre[2], 1) ELSE pre[2]

\* C3: after a rename-both event with the paths [old, new], Named(old) is
\* absent, Named(new) is present when new passes the filter, and the counter
\* was bumped once at most.
C3_RenameBothReplaces ==
    (EventDone /\ w.ev.kind = BothKind /\ w.ev.paths[1] # w.ev.paths[2]) =>
        LET old == w.ev.paths[1]
            new == w.ev.paths[2]
        IN  /\ Named(PathString(old)) \notin list[1]
            /\ fs[new[2]] = "file" => Named(PathString(new)) \in list[1]
            /\ list[2] \in {pre[2], wrapping_add(pre[2], 1)}

(***************************************************************************)
(* The change streams: claims C4 to C8.                                    *)
(***************************************************************************)
\* nothing is in flight: the loop awaits an event and none is queued
Quiescent == w.pc = "recv" /\ chan = <<>>

\* stream s gives an item in this step
Yields(s) == nyield'[s] = nyield[s] + 1

\* C4: a change is never lost: a stream left waiting when nothing more is in
\* flight has given the latest set (the counter not having wrapped round
\* since its last item).
C4_NoLostChange ==
    \A s \in Streams :
        (spc[s] = "waiting" /\ Quiescent /\ ver - yver[s] < UsizeModulus) =>
            item[s] = list[1]

\* C5, as claimed: each stream observes every value of the counter, one after
\* the other.
C5_EveryValueOnce ==
    [][\A s \in Streams : (Yields(s) /\ nyield[s] > 0) => yver'[s] = yver[s] + 1]_vars

\* C5, amended: each of the streams observes the values of the counter in the
\* order the counter took them, none of them twice; values between two of its
\* polls are skipped.
C5_InOrder ==
    [][\A s \in Streams : (Yields(s) /\ nyield[s] > 0) => yver'[s] > yver[s]]_vars

\* every stream has given two items and is up to date, after a value skipped
C5_Witness ==
    /\ \A s \in Streams : nyield[s] >= 2 /\ yver[s] = ver
    /\ \E s \in Streams : nyield[s] < ver + 1

\* C6: a new stream gives the current snapshot set as its first item, and
\* never waits before it.
C6_FirstItemWithoutWaiting ==
    \A s \in Streams :
        /\ nyield[s] = 0 => spc[s] \in {"none", "dropped", "list", "lockwait", "granted"}
        /\ (nyield[s] = 1 /\ yver[s] = ver /\ ~WriteLocked) =>
               (item[s] = list[1] /\ midx[s] = Some(list[2]))

\* a stream made after the counter moved has given its first item
C6_Witness ==
    \E s \in Streams : nyield[s] = 1 /\ yver[s] = ver /\ ver > 0 /\ ~WriteLocked

\* C7: two items in a row of one stream were read under different counters.
C7_CountersDiffer ==
    [][\A s \in Streams : (Yields(s) /\ nyield[s] > 0) => midx'[s] # midx[s]]_vars

\* a stream polled again after its second item found nothing new
C7_Witness == \E s \in Streams : nyield[s] >= 2 /\ spc[s] = "arm"

\* C8: a pair list() returned while an event was processed is the pair before
\* the event or the pair after it.
C8_NoTornRead == EventDone => \A r \in seen : r = pre \/ r = list

(***************************************************************************)
(* Construction: claims C9 and C10.                                        *)
(***************************************************************************)
\* C9: when the subscription cannot be established, new() returns an error.
C9_SubscriptionFailureIsReturned == w.pc = "failed" => ctor # "ok"

\* C10: with nothing more in flight, the snapshot holds the namespaces that
\* exist, those created or removed since the initial scan included.
C10_NoMissedChange ==
    (watching /\ Quiescent) =>
        \A n \in Names :
            fs[n] = "file" <=> Named(PathString(Join(NETNS_PATH, n))) \in list[1]

(***************************************************************************)
(* Entering and leaving a namespace: claims C11 and C12.                   *)
(***************************************************************************)
\* the last call was a close() that succeeded, of the handle made last among
\* those still open: nothing entered since is left to close; and no call of
\* enter() or close() has failed so far
ClosedInReverseOrder == last.op = "close" /\ last.clean /\ last.top

\* C11: after a successful enter() and a successful close() of its handle,
\* the calls between them being enter()/close() pairs closed in reverse
\* order of creation, the caller is in the namespace it was in when enter()
\* was called.
C11_CloseRestores == ClosedInReverseOrder => tns[last.thread] = last.at

\* the last call was enter() on a namespace whose path does not exist
EnteredMissing == last.op = "enter" /\ ~last.exists

C18_FailureLeavesNamespace ==
    last.op \in {"enter", "close"} /\ ~last.result.ok
        => tns[last.thread] = last.before[last.thread]

(***************************************************************************)
(* Streams that stop being polled: claim C13.                              *)
(***************************************************************************)
\* C13: a stream that is not polled any more, wherever it stopped, never
\* keeps the loop from applying an event: whenever the loop is at the
\* write().await of a call, it can take the write guard without any stream
\* taking a step first.
C13_StalledStreamBlocksNothing == w.pc = "call" => ENABLED Acquire

(***************************************************************************)
(* Streams only read: claim C14.                                           *)
(***************************************************************************)
\* C14: no step of a stream (made, polled, given an item, dropped) changes
\* the pair of the watcher; the pair changes only in new() and while the
\* loop holds the write guard in insert or remove.
C14_StreamsOnlyRead ==
    [][/\ (<<midx, item, nyield>>' # <<midx, item, nyield>> => list' = list)
       /\ (list' # list => WriteLocked \/ ctor = "none")]_vars

\* a stream was dropped and another has given items and waits, after the
\* loop changed the set
C14_Witness ==
    \E s, t \in Streams :
        spc[s] = "dropped" /\ spc[t] = "waiting" /\ nyield[t] >= 1 /\ ver >= 1

(***************************************************************************)
(* Netns::list(): claim C15.                                               *)
(***************************************************************************)
\* the entries the scan is to keep: those that can be stat'd, are no
\* directory and have not the inode of the default namespace
Kept(f, file_name) == file_name \in DOMAIN f /\ f[file_name] = "file"
RECURSIVE KeptOf(_, _)
KeptOf(entries, f) ==
    IF entries = <<>> THEN <<>>
    ELSE IF Kept(f, Head(entries))
         THEN <<Named(PathString(Join(NETNS_PATH, Head(entries))))>> \o KeptOf(Tail(entries), f)
    ELSE KeptOf(Tail(entries), f)

\* C15: Netns::list() returns a sequence that starts with Default; it is
\* exactly <<Default>> when the default namespace cannot be stat'd or the
\* directory cannot be opened; otherwise Default is followed by one Named
\* per entry that can be stat'd, is not a directory and has another inode
\* than the default namespace, the other entries being skipped.
C15_ListIsFilteredScan ==
    scan.done =>
        /\ Head(scan.out) = Default
        /\ (~proc_ok \/ ~dir => scan.out = <<Default>>)
        /\ (proc_ok /\ dir => scan.out = <<Default>> \o KeptOf(scan.entries, fs))

(***************************************************************************)
(* Events that change nothing: claims C16 and C17.                         *)
(***************************************************************************)
\* C16: when the loop is done with an event that left the members of the set
\* as they were, it wakes no waiting stream and has left the counter as it
\* was, so that no stream gives a new item for it.
C16_WakeOnlyOnChange ==
    [][(w.pc = "notify" /\ w'.pc = "recv" /\ list[1] = pre[1])
           => (spc' = spc /\ list[2] = pre[2])]_vars

\* the events the match has no call for, as the claim lists them: an error,
\* a kind that is no create, remove or rename of a file, a rename of both
\* names with another number of paths than two
Ignored(event) ==
    \/ ~event.ok
    \/ event.kind \notin InsertKinds \cup RemoveKinds \cup {BothKind}
    \/ event.kind = BothKind /\ Len(event.paths) # 2

\* C17: the step the loop takes for such an event leaves the set and the
\* counter as they are and wakes no stream: the loop is back at recv without
\* a call of insert, remove or notify_waiters.
C17_IgnoredEventsChangeNothing ==
    [][(w.pc = "match" /\ Ignored(w.ev) /\ w' # w)
           => (w' = Idle("recv") /\ list' = list /\ spc' = spc)]_vars

\* the loop has skipped an event while a stream that has given an item waits
\* and another event, a handled one, changed the set before
C17_Witness ==
    /\ skipped
    /\ w.pc = "recv"
    /\ ver >= 1
    /\ \E s \in Streams : spc[s] = "waiting" /\ nyield[s] >= 1

(***************************************************************************)
(* The default namespace in the snapshot: claim C19.                       *)
(***************************************************************************)
\* the members of a set that stand for the default namespace
Defaults(set) == {x \in set : x[1] = "Default"}

\* the names n such that this step put Named(/run/netns/n) into the set
Inserted == {n \in Names : Named(PathString(Join(NETNS_PATH, n))) \in list'[1] \ list[1]}

\* C19: once the watcher is built, Default is a member of its set in every
\* state and is its only member standing for the default namespace: no step
\* removes it, no step inserts an entry that has the inode of the default
\* namespace, and every item a stream has given contains Default.
C19_DefaultAlwaysMember ==
    [][/\ ctor' = "ok" => Defaults(list'[1]) = {Default}
       /\ ctor = "ok" => \A n \in Inserted : fs[n] # "default"
       /\ \A s \in Streams : nyield'[s] > 0 => Default \in item'[s]]_vars

\* a stream has given two items, the last one after the loop had removed
\* every named namespace, while an entry is a bind mount of the default
\* namespace
C19_Witness ==
    /\ list[1] = {Default}
    /\ ver >= 1
    /\ \E n \in Names : fs[n] = "default"
    /\ \E s \in Streams : nyield[s] >= 2 /\ item[s] = {Default}
====
